---- MODULE Spec2Model ----
(***************************************************************************)
(* Model of utils.py: the timeline loop and chart set-up of plot_gantt,    *)
(* and set_seed with the two process-wide generators it seeds.             *)
(*                                                                         *)
(* Times are integers.  Python sequences are 0-based; the TLA+ sequences   *)
(* below are 1-based, so the element with Python index i is at i + 1.      *)
(***************************************************************************)
EXTENDS Integers, Sequences, FiniteSets

\* ---------------------------------------------------------------- bounds
NJobs == 2
MaxLen == 3
MaxProc == 2
MaxRelease == 5
MaxCalls == 2
MaxSeed == 1
MaxDraws == 3
MaxSeedings == 3
RngMod == 8

VARIABLES
    sequence,          \* argument of plot_gantt: list of job indices
    processing_times,  \* argument of plot_gantt
    release_dates,     \* argument of plot_gantt
    pc,                \* "idle" | "loop" | "done" | "error"
    position,          \* enumerate() counter of the timeline loop
    current_time,      \* local of plot_gantt
    schedule_data,     \* local of plot_gantt
    chart,             \* what the plotting part handed to the axes
    raised,            \* exception that left plot_gantt, "none" if none
    calls,             \* number of calls of plot_gantt so far
    prev,              \* history: outcome of the previous call
    inputs0,           \* history: the arguments as first passed
    py_state,          \* state of Python's random generator
    np_state,          \* state of numpy's global generator
    seeded,            \* history: seed of the latest set_seed, NoSeed if none
    draws,             \* history: draws since the latest set_seed
    log,               \* history: per seed, the draw traces of finished epochs
    seedings           \* number of set_seed calls so far

ganttVars == <<sequence, processing_times, release_dates, pc, position,
               current_time, schedule_data, chart, raised, calls, prev, inputs0>>
seedVars == <<py_state, np_state, seeded, draws, log, seedings>>
vars == <<sequence, processing_times, release_dates, pc, position,
          current_time, schedule_data, chart, raised, calls, prev, inputs0,
          py_state, np_state, seeded, draws, log, seedings>>

\* ---------------------------------------------------------------- helpers
Max(a, b) == IF a >= b THEN a ELSE b

Min(a, b) == IF a <= b THEN a ELSE b

\* arr[job] raises IndexError unless -len(arr) <= job < len(arr)
InRange(arr, job) == job >= -Len(arr) /\ job < Len(arr)

\* arr[job] for an index in range; a negative index counts from the end
Item(arr, job) == IF job < 0 THEN arr[job + Len(arr) + 1] ELSE arr[job + 1]

InitialTimeStale == current_time

\* current_time = 0
InitialTime == 0

StartTimeNoRelease(ct, release) == ct

StartTimeNoMachine(ct, release) == release

\* start = max(current_time, release_dates[job])
StartTime(ct, release) == Max(ct, release)

FinishTimeNoStart(start, duration) == duration

\* finish = start + processing_times[job]
FinishTime(start, duration) == start + duration

IdleTimeFromZero(start, ct) == start

\* idle = start - current_time
IdleTime(start, ct) == start - ct

NextTimeIsStart(start, finish) == start

\* current_time = finish
NextTime(start, finish) == finish

\* the dictionary appended to schedule_data for one position
Entry(pos, job, ct) ==
    LET release == Item(release_dates, job)
        start == StartTime(ct, release)
        duration == Item(processing_times, job)
    IN  [position |-> pos,
         job |-> job,
         start |-> start,
         finish |-> FinishTime(start, duration),
         duration |-> duration,
         release |-> release,
         idle |-> IdleTime(start, ct)]

NoChart == [idle_bars |-> {}, job_bars |-> {}, release_marks |-> {},
            release_texts |-> {}, yticks |-> {}, xlim |-> <<0, 0>>]

\* the plotting part: bars, markers, labels and axis limits (times 100, so
\* that current_time * 1.05 stays an integer)
Draw(data, ct, n) ==
    [idle_bars |-> {[y |-> i - 1, width |-> data[i].idle,
                     left |-> data[i].start - data[i].idle] :
                        i \in {k \in 1..Len(data) : data[k].idle > 0}},
     job_bars |-> {[y |-> i - 1, width |-> data[i].duration,
                    left |-> data[i].start, label |-> data[i].job] :
                        i \in 1..Len(data)},
     release_marks |-> {[y |-> i - 1, x |-> data[i].release] : i \in 1..Len(data)},
     release_texts |-> {[y |-> i - 1, x |-> data[i].release] :
                        i \in {k \in 1..Len(data) : data[k].release < data[k].start}},
     yticks |-> 0..(n - 1),
     xlim |-> <<0, ct * 105>>]

\* ---------------------------------------------------------------- inputs
JobIndices == (-1)..(NJobs + 1)

ProcValues == (-1)..MaxProc

ReleaseValues == (-1)..MaxRelease

SeqsUpTo(S, n) == UNION {[1..k -> S] : k \in 0..n}

NoSeed == -1

Seeds == 0..MaxSeed

States == 0..(RngMod - 1)

NoPrev == [outcome |-> "none", data |-> <<>>, chart |-> NoChart]

InitSeedPart ==
    /\ seeded = NoSeed
    /\ draws = <<>>
    /\ log = [s \in Seeds |-> {}]
    /\ seedings = 0

InitGanttPart ==
    /\ pc = "idle"
    /\ position = 0
    /\ current_time = 0
    /\ schedule_data = <<>>
    /\ chart = NoChart
    /\ raised = "none"
    /\ calls = 0
    /\ prev = NoPrev
    /\ inputs0 = <<sequence, processing_times, release_dates>>

Init ==
    /\ sequence \in SeqsUpTo(JobIndices, MaxLen)
    /\ processing_times \in [1..NJobs -> ProcValues]
    /\ release_dates \in [1..NJobs -> ReleaseValues]
    /\ InitGanttPart
    /\ py_state = 0
    /\ np_state = 0
    /\ InitSeedPart

InitSeed ==
    /\ sequence = <<>>
    /\ processing_times = [i \in 1..NJobs |-> 0]
    /\ release_dates = [i \in 1..NJobs |-> 0]
    /\ InitGanttPart
    /\ py_state \in States
    /\ np_state \in States
    /\ InitSeedPart

\* ---------------------------------------------------------------- plot_gantt
\* entry of plot_gantt: the two locals are set up
Call ==
    /\ pc \in {"idle", "done", "error"}
    /\ calls < MaxCalls
    /\ calls' = calls + 1
    /\ prev' = IF calls = 0 THEN prev
               ELSE [outcome |-> pc, data |-> schedule_data, chart |-> chart]
    /\ current_time' = InitialTime
    /\ schedule_data' = <<>>
    /\ position' = 0
    /\ chart' = NoChart
    /\ raised' = "none"
    /\ pc' = "loop"
    /\ UNCHANGED <<sequence, processing_times, release_dates, inputs0>>
    /\ UNCHANGED seedVars

\* one iteration of the timeline loop, both lookups in range
LoopStep ==
    /\ pc = "loop"
    /\ position < Len(sequence)
    /\ LET job == sequence[position + 1] IN
        /\ InRange(release_dates, job)
        /\ InRange(processing_times, job)
        /\ LET e == Entry(position, job, current_time) IN
            /\ schedule_data' = Append(schedule_data, e)
            /\ current_time' = NextTime(e.start, e.finish)
    /\ position' = position + 1
    /\ UNCHANGED <<sequence, processing_times, release_dates, pc, chart,
                   raised, calls, prev, inputs0>>
    /\ UNCHANGED seedVars

\* one iteration of the timeline loop whose lookup raises IndexError
LoopRaise ==
    /\ pc = "loop"
    /\ position < Len(sequence)
    /\ LET job == sequence[position + 1] IN
        ~(InRange(release_dates, job) /\ InRange(processing_times, job))
    /\ raised' = "IndexError"
    /\ pc' = "error"
    /\ UNCHANGED <<sequence, processing_times, release_dates, position,
                   current_time, schedule_data, chart, calls, prev, inputs0>>
    /\ UNCHANGED seedVars

\* the plotting part after the loop
Render ==
    /\ pc = "loop"
    /\ position = Len(sequence)
    /\ chart' = Draw(schedule_data, current_time, Len(sequence))
    /\ pc' = "done"
    /\ UNCHANGED <<sequence, processing_times, release_dates, position,
                   current_time, schedule_data, raised, calls, prev, inputs0>>
    /\ UNCHANGED seedVars

Next == Call \/ LoopStep \/ LoopRaise \/ Render

Spec == Init /\ [][Next]_vars

\* ---------------------------------------------------------------- set_seed
\* the state a generator is put in by seeding it
PySeedState(seed) == (seed + 1) % RngMod

NpSeedState(seed) == (2 * seed + 3) % RngMod

\* one step of each generator
PyStep(s) == (5 * s + 3) % RngMod

NpStep(s) == (3 * s + 1) % RngMod

Closed(epochs) == IF seeded = NoSeed THEN epochs
                  ELSE [epochs EXCEPT ![seeded] = @ \cup {draws}]

set_seed_python_only(seed) ==
    /\ seedings < MaxSeedings
    /\ py_state' = PySeedState(seed)
    /\ np_state' = np_state
    /\ seedings' = seedings + 1
    /\ log' = Closed(log)
    /\ seeded' = seed
    /\ draws' = <<>>
    /\ UNCHANGED ganttVars

set_seed(seed) ==
    /\ seedings < MaxSeedings
    /\ py_state' = PySeedState(seed)
    /\ np_state' = NpSeedState(seed)
    /\ seedings' = seedings + 1
    /\ log' = Closed(log)
    /\ seeded' = seed
    /\ draws' = <<>>
    /\ UNCHANGED ganttVars

SetSeed == \E seed \in Seeds : set_seed(seed)

\* a caller draws from Python's random
PyDraw ==
    /\ Len(draws) < MaxDraws
    /\ draws' = Append(draws, [gen |-> "py", val |-> py_state])
    /\ py_state' = PyStep(py_state)
    /\ UNCHANGED <<np_state, seeded, log, seedings>>
    /\ UNCHANGED ganttVars

\* a caller draws from numpy's global generator
NpDraw ==
    /\ Len(draws) < MaxDraws
    /\ draws' = Append(draws, [gen |-> "np", val |-> np_state])
    /\ np_state' = NpStep(np_state)
    /\ UNCHANGED <<py_state, seeded, log, seedings>>
    /\ UNCHANGED ganttVars

NextSeed == SetSeed \/ PyDraw \/ NpDraw

SpecSeed == InitSeed /\ [][NextSeed]_vars

\* ---------------------------------------------------------------- properties
Records == 1..Len(schedule_data)

\* finish of the record before position i (1-based), 0 before the first
PrevFinish(i) == IF i = 1 THEN 0 ELSE schedule_data[i - 1].finish

RECURSIVE SumDuration(_)
SumDuration(k) ==
    IF k = 0 THEN 0
    ELSE SumDuration(k - 1) + Item(processing_times, sequence[k])

RECURSIVE SumIdle(_)
SumIdle(k) == IF k = 0 THEN 0 ELSE SumIdle(k - 1) + schedule_data[k].idle

\* current_time after the first k positions
TimeAfter(k) == IF k = 0 THEN 0 ELSE schedule_data[k].finish

ValidIndices == \A i \in 1..Len(sequence) : sequence[i] \in 0..(NJobs - 1)

NonNegativeTimes ==
    \A j \in 1..NJobs : processing_times[j] >= 0 /\ release_dates[j] >= 0

HasBadIndex ==
    \E i \in 1..Len(sequence) :
        ~(InRange(release_dates, sequence[i]) /\ InRange(processing_times, sequence[i]))

HasNegativeTime ==
    \E i \in 1..Len(sequence) :
        /\ InRange(release_dates, sequence[i])
        /\ InRange(processing_times, sequence[i])
        /\ \/ Item(release_dates, sequence[i]) < 0
           \/ Item(processing_times, sequence[i]) < 0

\* C1: every recorded start is at or after the release date of the job at
\* that position.
C1_ReleaseFeasible ==
    \A i \in Records :
        schedule_data[i].start >= Item(release_dates, sequence[i])

C1_Witness ==
    /\ pc = "done"
    /\ ValidIndices
    /\ Len(schedule_data) >= 2
    /\ \E i \in Records : schedule_data[i].start > Item(release_dates, sequence[i])
    /\ \E i \in Records : /\ schedule_data[i].start = Item(release_dates, sequence[i])
                          /\ schedule_data[i].start > PrevFinish(i)

\* C2: consecutive records never overlap: the finish recorded for a position
\* is at most the start recorded for the next position.
C2_NonOverlap ==
    \A i \in Records :
        i + 1 \in Records => schedule_data[i].finish <= schedule_data[i + 1].start

C2_Witness ==
    /\ pc = "done"
    /\ ValidIndices
    /\ NonNegativeTimes
    /\ Len(schedule_data) = MaxLen
    /\ \E i \in Records : /\ i + 1 \in Records
                          /\ schedule_data[i].finish > 0
                          /\ schedule_data[i + 1].release < schedule_data[i].finish
                          /\ schedule_data[i + 1].start = schedule_data[i].finish

\* C3 (as claimed): a sequence with an out-of-range job index is rejected
\* before any timing record is computed.
C3_RejectedAtEntry == HasBadIndex => schedule_data = <<>>

\* C4 (as claimed): a negative processing time or release date referenced by
\* the sequence makes the reconstruction fail instead of producing records.
C4_NegativeRejected == HasNegativeTime => (schedule_data = <<>> /\ pc # "done")

\* C5: every recorded idle is non-negative and equals the start minus the
\* finish of the previous position (0 before the first).
C5_IdleAccounting ==
    \A i \in Records :
        /\ schedule_data[i].idle >= 0
        /\ schedule_data[i].idle = schedule_data[i].start - PrevFinish(i)

C5_Witness ==
    /\ pc = "done"
    /\ Len(schedule_data) >= 2
    /\ \E i \in Records : i > 1 /\ schedule_data[i].idle > 0 /\ PrevFinish(i) > 0
    /\ \E i \in Records : i > 1 /\ schedule_data[i].idle = 0 /\ PrevFinish(i) > 0

\* C6: after the loop the current_time that sizes the time axis is the finish
\* of the last record, and 0 for an empty sequence.
C6_Makespan ==
    pc = "done" =>
        /\ Len(schedule_data) = Len(sequence)
        /\ Len(sequence) = 0 => (current_time = 0 /\ chart.xlim = <<0, 0>>)
        /\ Len(sequence) > 0 =>
             /\ current_time = schedule_data[Len(schedule_data)].finish
             /\ chart.xlim = <<0, 105 * schedule_data[Len(schedule_data)].finish>>

C6_Witness ==
    /\ pc = "done"
    /\ Len(sequence) = MaxLen
    /\ schedule_data[MaxLen].duration > 0
    /\ chart.xlim[2] > 0

\* two traces of draws agree wherever they drew from the same generators
Agree(t1, t2) ==
    \A k \in 1..Min(Len(t1), Len(t2)) :
        (\A i \in 1..k : t1[i].gen = t2[i].gen) => t1[k].val = t2[k].val

\* C7: the draws made after set_seed(s) repeat the draws made after every
\* earlier set_seed(s), for both generators, whatever happened in between.
C7_Reproducible ==
    seeded # NoSeed => \A t \in log[seeded] : Agree(t, draws)

C7_Witness ==
    /\ seeded # NoSeed
    /\ Len(draws) >= 2
    /\ \E i, j \in 1..Len(draws) : draws[i].gen = "py" /\ draws[j].gen = "np"
    /\ \E t \in log[seeded] :
          /\ Len(t) = Len(draws)
          /\ \A i \in 1..Len(t) : t[i].gen = draws[i].gen
    /\ \E s \in Seeds : s # seeded /\ log[s] # {}

\* C8: each record follows the recurrence start = max(previous finish,
\* release), finish = start + processing time: a release after the previous
\* finish gives start = release and idle = release - previous finish, a
\* release at or before it gives start = previous finish and idle = 0.
C8_Recurrence ==
    /\ \A i \in Records :
          LET r == Item(release_dates, sequence[i])
              p == Item(processing_times, sequence[i])
              e == schedule_data[i]
          IN  /\ r > PrevFinish(i) => (e.start = r /\ e.idle = r - PrevFinish(i))
              /\ r <= PrevFinish(i) => (e.start = PrevFinish(i) /\ e.idle = 0)
              /\ e.finish = e.start + p
    /\ ( /\ pc = "done"
         /\ sequence = <<0, 1>>
         /\ processing_times = <<2, 2>>
         /\ release_dates = <<0, 5>> )
       => /\ schedule_data[1].start = 0 /\ schedule_data[1].finish = 2
          /\ schedule_data[2].start = 5 /\ schedule_data[2].idle = 3
          /\ schedule_data[2].finish = 7

C8_Witness ==
    /\ pc = "done"
    /\ sequence = <<0, 1>>
    /\ processing_times = <<2, 2>>
    /\ release_dates = <<0, 5>>
    /\ schedule_data[2].start = 5

\* the tie of C8: a release equal to the previous finish, no idle
C8_WitnessTie ==
    /\ pc = "done"
    /\ Len(schedule_data) >= 2
    /\ \E i \in Records : /\ i > 1
                          /\ PrevFinish(i) > 0
                          /\ schedule_data[i].release = PrevFinish(i)
                          /\ schedule_data[i].idle = 0

\* C9: a second call on the same arguments ends the same way with the same
\* records and chart, and the arguments are the ones first passed.
C9_Deterministic ==
    /\ <<sequence, processing_times, release_dates>> = inputs0
    /\ (calls >= 2 /\ pc \in {"done", "error"}) =>
          /\ prev.outcome = pc
          /\ prev.data = schedule_data
          /\ prev.chart = chart

C9_Witness ==
    /\ calls >= 2
    /\ pc = "done"
    /\ Len(schedule_data) >= 2
    /\ prev.data = schedule_data
    /\ current_time > 0
    /\ \E i \in Records : schedule_data[i].release < current_time

\* C10: with non-negative times, current_time after k positions is the sum
\* of their processing times plus their idles; it never decreases, and the
\* final value is at least the total processing time and at least release +
\* processing time of every scheduled job.
C10_TimeConservation ==
    (NonNegativeTimes /\ pc \in {"loop", "done"}) =>
        /\ current_time = TimeAfter(Len(schedule_data))
        /\ \A k \in Records :
              /\ TimeAfter(k) = SumDuration(k) + SumIdle(k)
              /\ TimeAfter(k) >= TimeAfter(k - 1)
        /\ pc = "done" =>
              /\ current_time >= SumDuration(Len(sequence))
              /\ \A i \in 1..Len(sequence) :
                    current_time >= Item(release_dates, sequence[i])
                                    + Item(processing_times, sequence[i])

C10_Witness ==
    /\ pc = "done"
    /\ NonNegativeTimes
    /\ Len(schedule_data) = MaxLen
    /\ SumIdle(MaxLen) > 0
    /\ SumDuration(MaxLen) > 0
    /\ \E i \in Records : i > 1 /\ schedule_data[i].idle > 0

====
